---------------------------- MODULE Spec2Model ----------------------------
(***************************************************************************)
(* A model of fontbro's Font (src/fontbro/font.py): the variable-font      *)
(* operations to_sliced_variable, to_static, save_variable_instances and   *)
(* the naming / style-flag code they call (rename, set_style_flags, ...).  *)
(*                                                                         *)
(* A Python str is a sequence of one-character strings.  A Python None and *)
(* a missing dict key are the numbers NoneVal and Missing, which no axis   *)
(* value of the model equals.                                              *)
(***************************************************************************)
EXTENDS Integers, Sequences, FiniteSets, TLC

VARIABLES
    font,       \* the wrapped TTFont of the Font object (self._ttfont)
    source,     \* the binary the Font was loaded from (self._filepath)
    last,       \* the last call on the Font: arguments, outcome, instancer call
    before,     \* the wrapped TTFont as it was when the last call started
    exported,   \* the fonts the last save_variable_instances saved
    calls       \* number of calls made so far

vars == <<font, source, last, before, exported, calls>>

-----------------------------------------------------------------------------
(* Bounds of the model.                                                     *)

MaxCalls == 2

-----------------------------------------------------------------------------
(* Python values.                                                           *)

NoneVal == 0 - 9999

Missing == 0 - 9998

IsNumber(v) == v # NoneVal /\ v # Missing

Max2(a, b) == IF a >= b THEN a ELSE b

Min2(a, b) == IF a <= b THEN a ELSE b

-----------------------------------------------------------------------------
(* Strings.                                                                 *)

UpperChars == <<"A","B","C","D","E","F","G","H","I","J","K","L","M",
                "N","O","P","Q","R","S","T","U","V","W","X","Y","Z">>

LowerChars == <<"a","b","c","d","e","f","g","h","i","j","k","l","m",
                "n","o","p","q","r","s","t","u","v","w","x","y","z">>

Digits == {"0","1","2","3","4","5","6","7","8","9"}

IsUpper(c) == \E i \in 1..26 : UpperChars[i] = c

IsLower(c) == \E i \in 1..26 : LowerChars[i] = c

IsAlpha(c) == IsUpper(c) \/ IsLower(c)

\* str.lower() on one character
LowerChar(c) ==
    IF IsUpper(c) THEN LowerChars[CHOOSE i \in 1..26 : UpperChars[i] = c] ELSE c

\* str.upper() on one character
UpperChar(c) ==
    IF IsLower(c) THEN UpperChars[CHOOSE i \in 1..26 : LowerChars[i] = c] ELSE c

\* str.lower()
Lower(s) == [i \in 1..Len(s) |-> LowerChar(s[i])]

\* str.title(): a cased character is upper-cased when it follows an uncased
\* one (or starts the string) and lower-cased otherwise
Title(s) ==
    [i \in 1..Len(s) |->
        IF i = 1 \/ ~IsAlpha(s[i - 1]) THEN UpperChar(s[i]) ELSE LowerChar(s[i])]

RECURSIVE LStrip(_, _)
LStrip(s, cs) ==
    IF s # <<>> /\ Head(s) \in cs THEN LStrip(Tail(s), cs) ELSE s

RECURSIVE RStrip(_, _)
RStrip(s, cs) ==
    IF s # <<>> /\ s[Len(s)] \in cs THEN RStrip(SubSeq(s, 1, Len(s) - 1), cs) ELSE s

\* str.strip(): leading and trailing whitespace removed
Strip(s) == RStrip(LStrip(s, {" "}), {" "})

\* str.strip(chars)
StripChars(s, cs) == RStrip(LStrip(s, cs), cs)

\* s1 is a prefix of s
StartsWith(s, p) == Len(p) <= Len(s) /\ SubSeq(s, 1, Len(p)) = p

EndsWith(s, p) == Len(p) <= Len(s) /\ SubSeq(s, Len(s) - Len(p) + 1, Len(s)) = p

\* the Python expression  p in s
Contains(s, p) ==
    \E i \in 1..(Len(s) - Len(p) + 1) : SubSeq(s, i, i + Len(p) - 1) = p

\* str.replace(old, new): every non-overlapping occurrence, left to right; an
\* empty old matches before every character and at the end
RECURSIVE Replace(_, _, _)
Replace(s, old, new) ==
    IF old = <<>>
    THEN IF s = <<>> THEN new ELSE new \o <<Head(s)>> \o Replace(Tail(s), old, new)
    ELSE IF s = <<>> THEN <<>>
    ELSE IF StartsWith(s, old)
    THEN new \o Replace(SubSeq(s, Len(old) + 1, Len(s)), old, new)
    ELSE <<Head(s)>> \o Replace(Tail(s), old, new)

\* a string of n copies of the character c
Repeat(c, n) == [i \in 1..n |-> c]

-----------------------------------------------------------------------------
(* The wrapped TTFont.                                                      *)

AllTags == {"wght", "wdth", "ital", "slnt"}

NameKeys == {"family_name", "subfamily_name", "unique_identifier", "full_name",
             "postscript_name", "typographic_family_name",
             "typographic_subfamily_name", "wws_family_name",
             "wws_subfamily_name"}

\* a dict with no key
EmptyDict == [t \in AllTags |-> Missing]

\* dict.keys()
Keys(d) == {t \in DOMAIN d : d[t] # Missing}

\* mapping of axis tag to number: a named instance's coordinates
Point(wght, wdth, ital, slnt) ==
    [t \in AllTags |->
        CASE t = "wght" -> wght [] t = "wdth" -> wdth [] t = "ital" -> ital
          [] OTHER -> slnt]

Axis(tag, lo, df, hi) ==
    [tag |-> tag, min_value |-> lo, default_value |-> df, max_value |-> hi]

\* a font taken for variable whether or not it has an fvar table
is_variable_always(f) == TRUE

\* "fvar" in font
is_variable(f) == f.fvar

is_static(f) == ~is_variable(f)

\* a getter returns a list or None
None == [isNone |-> TRUE, v |-> <<>>]

Some(list) == [isNone |-> FALSE, v |-> list]

\* the Python expression  x or []
OrEmpty(x) == x.v

get_variable_axes(f) == IF ~is_variable(f) THEN None ELSE Some(f.axes)

get_variable_axes_tags(f) ==
    IF ~is_variable(f) THEN None ELSE Some([i \in 1..Len(f.axes) |-> f.axes[i].tag])

\* set(self.get_variable_axes_tags() or [])
AxesTagSet(f) ==
    {OrEmpty(get_variable_axes_tags(f))[i] :
        i \in 1..Len(OrEmpty(get_variable_axes_tags(f)))}

get_variable_instances(f) == IF ~is_variable(f) THEN None ELSE Some(f.instances)

\* get_variable_axis_by_tag(tag) is not None
HasAxis(f, tag) == tag \in AxesTagSet(f)

\* the first axis with the tag; asked only when HasAxis
get_variable_axis_by_tag(f, tag) ==
    LET axes == OrEmpty(get_variable_axes(f))
        i == CHOOSE i \in 1..Len(axes) :
                 axes[i].tag = tag /\ \A j \in 1..(i - 1) : axes[j].tag # tag
    IN axes[i]

\* name_table.getName(...).toUnicode(), "" standing for None
get_name(f, key) == f.names[key]

get_family_name(f) ==
    IF get_name(f, "typographic_family_name") # <<>>
    THEN get_name(f, "typographic_family_name")
    ELSE IF get_name(f, "wws_family_name") # <<>>
    THEN get_name(f, "wws_family_name")
    ELSE get_name(f, "family_name")

get_style_name(f) ==
    IF get_name(f, "typographic_subfamily_name") # <<>>
    THEN get_name(f, "typographic_subfamily_name")
    ELSE IF get_name(f, "wws_subfamily_name") # <<>>
    THEN get_name(f, "wws_subfamily_name")
    ELSE get_name(f, "subfamily_name")

-----------------------------------------------------------------------------
(* Style flags: bits of OS/2.fsSelection and head.macStyle.                 *)

StyleFlagsKeys == <<"regular", "bold", "italic", "underline", "outline",
                    "shadow", "condensed", "extended">>

NoBit == 0 - 1

\* _STYLE_FLAGS
STYLE_FLAGS(key) ==
    CASE key = "regular"   -> [bit_head_mac |-> NoBit, bit_os2_fs |-> 6]
      [] key = "bold"      -> [bit_head_mac |-> 0, bit_os2_fs |-> 5]
      [] key = "italic"    -> [bit_head_mac |-> 1, bit_os2_fs |-> 0]
      [] key = "underline" -> [bit_head_mac |-> 2, bit_os2_fs |-> NoBit]
      [] key = "outline"   -> [bit_head_mac |-> 3, bit_os2_fs |-> 3]
      [] key = "shadow"    -> [bit_head_mac |-> 4, bit_os2_fs |-> NoBit]
      [] key = "condensed" -> [bit_head_mac |-> 5, bit_os2_fs |-> NoBit]
      [] key = "extended"  -> [bit_head_mac |-> 6, bit_os2_fs |-> NoBit]

\* fontbro.flags: a bit field is the set of its set bits
get_flag(bits, bit) == bit \in bits

set_flag(bits, bit, value) == IF value THEN bits \cup {bit} ELSE bits \ {bit}

get_style_flag(f, key) ==
    LET bits == STYLE_FLAGS(key)
        flag_os2_fs == bits.bit_os2_fs # NoBit /\ get_flag(f.fsSelection, bits.bit_os2_fs)
        flag_head_mac == bits.bit_head_mac # NoBit /\ get_flag(f.macStyle, bits.bit_head_mac)
    IN flag_os2_fs \/ flag_head_mac

get_style_flags(f) ==
    [k \in {StyleFlagsKeys[i] : i \in 1..Len(StyleFlagsKeys)} |-> get_style_flag(f, k)]

\* the flag written to OS/2.fsSelection only
set_style_flag_os2(f, key, value) ==
    LET bits == STYLE_FLAGS(key)
    IN [f EXCEPT
          !.fsSelection = IF bits.bit_os2_fs # NoBit
                          THEN set_flag(@, bits.bit_os2_fs, value) ELSE @]

set_style_flag(f, key, value) ==
    LET bits == STYLE_FLAGS(key)
    IN [f EXCEPT
          !.fsSelection = IF bits.bit_os2_fs # NoBit
                          THEN set_flag(@, bits.bit_os2_fs, value) ELSE @,
          !.macStyle = IF bits.bit_head_mac # NoBit
                       THEN set_flag(@, bits.bit_head_mac, value) ELSE @]

\* set_style_flags(**flags): flags is a sequence of <<key, value>> in keyword
\* order, the keys given as None left out
RECURSIVE set_style_flags(_, _)
set_style_flags(f, flags) ==
    IF flags = <<>> THEN f
    ELSE set_style_flags(set_style_flag(f, Head(flags)[1], Head(flags)[2]), Tail(flags))

-----------------------------------------------------------------------------
(* Naming: fontbro.utils helpers and Font.rename.                           *)

\* fontbro.utils.concat_names: the two names joined by a space
concat_names(a, b) ==
    IF a = <<>> THEN b ELSE IF b = <<>> THEN a ELSE a \o <<" ">> \o b

\* fontbro.utils.remove_spaces
remove_spaces(s) == SelectSeq(s, LAMBDA c : c # " ")

\* fontbro.utils.slugify: the case- and whitespace-insensitive form of a name
slugify(s) == Lower(remove_spaces(s))

\* characters a PostScript name keeps (the complement of postscript_name_pattern);
\* "grave" is the grave accent character
PostScriptAllowed ==
    Digits \cup {UpperChars[i] : i \in 1..26} \cup {LowerChars[i] : i \in 1..26}
    \cup {"!", "\"", "#", "$", "&", "'", "*", "+", ",", "-", ".", ":", ";",
          "=", "?", "@", "\\", "^", "_", "grave", "|", "~"}

\* re.sub(r"[\-]+", "-", s)
CollapseDashes(s) ==
    LET followed == [i \in 1..Len(s) |-> <<s[i], IF i < Len(s) THEN s[i + 1] ELSE "">>]
        kept == SelectSeq(followed, LAMBDA p : ~(p[1] = "-" /\ p[2] = "-"))
    IN [i \in 1..Len(kept) |-> kept[i][1]]

PostScriptMaxLength == 63

\* the PostScript name computed with the spaces of the names left in
PostScriptName_spaces(family_name, style_name) ==
    LET joined == concat_names(family_name, style_name)
        subbed == [i \in 1..Len(joined) |->
                      IF joined[i] \in PostScriptAllowed THEN joined[i] ELSE "-"]
    IN StripChars(CollapseDashes(subbed), {"-"})

\* the length check left out
PostScriptNameExceeds_never(postscript_name) == FALSE

\* postscript_name_length > 63
PostScriptNameExceeds(postscript_name) == Len(postscript_name) > PostScriptMaxLength

\* the PostScript name rename computes from the typographic names
PostScriptName(family_name, style_name) ==
    LET joined == concat_names(remove_spaces(family_name), remove_spaces(style_name))
        subbed == [i \in 1..Len(joined) |->
                      IF joined[i] \in PostScriptAllowed THEN joined[i] ELSE "-"]
    IN StripChars(CollapseDashes(subbed), {"-"})

S_Regular == <<"R","e","g","u","l","a","r">>

S_Italic == <<"I","t","a","l","i","c">>

S_Bold == <<"B","o","l","d">>

S_BoldItalic == S_Bold \o <<" ">> \o S_Italic

\* subfamily_names of rename, in title case
SubfamilyNames == {S_Regular, S_Italic, S_Bold, S_BoldItalic}

\* the style flags left as they are whatever the subfamily name is
set_style_flags_by_subfamily_name_never(f) == f

set_style_flags_by_subfamily_name(f) ==
    LET subfamily_name == Lower(get_name(f, "subfamily_name"))
    IN CASE subfamily_name = Lower(S_Regular) ->
              set_style_flags(f, << <<"regular", TRUE>>, <<"bold", FALSE>>, <<"italic", FALSE>> >>)
         [] subfamily_name = Lower(S_Bold) ->
              set_style_flags(f, << <<"regular", FALSE>>, <<"bold", TRUE>>, <<"italic", FALSE>> >>)
         [] subfamily_name = Lower(S_Italic) ->
              set_style_flags(f, << <<"regular", FALSE>>, <<"bold", FALSE>>, <<"italic", TRUE>> >>)
         [] subfamily_name = Lower(S_BoldItalic) ->
              set_style_flags(f, << <<"regular", FALSE>>, <<"bold", TRUE>>, <<"italic", TRUE>> >>)
         [] OTHER -> f

\* set_names: both platform records of every given key
set_names(f, names) ==
    [f EXCEPT !.names = [k \in NameKeys |-> IF k \in DOMAIN names THEN names[k] ELSE @[k]]]

\* the end of rename: if update_style_flags: set_style_flags_by_subfamily_name()
UpdateStyleFlags(f, update_style_flags) ==
    IF update_style_flags THEN set_style_flags_by_subfamily_name(f) ELSE f

\* Font.rename: the font after the call and the error raised ("" when none)
rename(f, family_name_arg, style_name_arg, update_style_flags) ==
    LET typographic_family_name ==
            IF Strip(family_name_arg) # <<>> THEN Strip(family_name_arg)
            ELSE get_family_name(f)
        style_name ==
            IF Strip(style_name_arg) # <<>> THEN Strip(style_name_arg)
            ELSE get_style_name(f)
        legacy == Lower(style_name) \in {Lower(n) : n \in SubfamilyNames}
        \* re.sub(r"\ italic$", "", style_name, flags=re.IGNORECASE)
        family_name_suffix ==
            IF EndsWith(Lower(style_name), <<" ">> \o Lower(S_Italic))
            THEN SubSeq(style_name, 1, Len(style_name) - 7)
            ELSE style_name
        family_name ==
            IF ~legacy /\ family_name_suffix # <<>>
            THEN typographic_family_name \o <<" ">> \o family_name_suffix
            ELSE typographic_family_name
        subfamily_name ==
            Title(IF legacy THEN Lower(style_name)
                  ELSE IF Contains(Lower(style_name), Lower(S_Italic))
                  THEN Lower(S_Italic) ELSE Lower(S_Regular))
        full_name == concat_names(typographic_family_name, style_name)
        postscript_name == PostScriptName(typographic_family_name, style_name)
        unique_identifier ==
            Replace(get_name(f, "unique_identifier"), get_name(f, "postscript_name"),
                    postscript_name)
        names == [family_name |-> family_name,
                  subfamily_name |-> subfamily_name,
                  unique_identifier |-> unique_identifier,
                  full_name |-> full_name,
                  postscript_name |-> postscript_name,
                  typographic_family_name |-> typographic_family_name,
                  typographic_subfamily_name |-> style_name,
                  wws_family_name |-> typographic_family_name,
                  wws_subfamily_name |-> style_name]
    IN IF PostScriptNameExceeds(postscript_name)
       THEN [font |-> f, error |-> "ArgumentError", msg |-> "postscript name too long"]
       ELSE [font |-> UpdateStyleFlags(set_names(f, names), update_style_flags),
             error |-> "", msg |-> ""]

-----------------------------------------------------------------------------
(* Coordinates: a dict of axis tag to value.  A value is a record of its    *)
(* Python type k and its content s.                                         *)

V_absent == [k |-> "absent", s |-> <<>>]

V_none == [k |-> "none", s |-> <<>>]

Num(v) == [k |-> "num", s |-> <<v>>]

Tuple(s) == [k |-> "tuple", s |-> s]

List(s) == [k |-> "list", s |-> s]

\* a dict value {'min':..,'default':..,'max':..}; Missing for a key left out
Dict(min, default, max) == [k |-> "dict", s |-> <<min, default, max>>]

NoCoordinates == [t \in AllTags |-> V_absent]

CoordKeys(c) == {t \in AllTags : c[t].k # "absent"}

\* a named instance's coordinates as the dict to_static works on
CoordsOfPoint(p) ==
    [t \in AllTags |->
        IF p[t] = Missing THEN V_absent ELSE IF p[t] = NoneVal THEN V_none
        ELSE Num(p[t])]

\* the pinned check answering True for values of any type
all_axes_pinned_unchecked(axes) == TRUE

\* Font._all_axes_pinned
all_axes_pinned(axes) == \A t \in CoordKeys(axes) : axes[t].k \in {"none", "num"}

-----------------------------------------------------------------------------
(* fontTools.varLib.instancer.instantiateVariableFont(font, coordinates,    *)
(* inplace=True), as far as fvar is concerned.                              *)

\* AxisTriple.expand and __post_init__: ok is FALSE where they raise
AxisTriple(v) ==
    CASE v.k = "num" -> [ok |-> TRUE, t |-> <<v.s[1], v.s[1], v.s[1]>>]
      [] v.k = "tuple" /\ Len(v.s) = 2 ->
            IF ~(IsNumber(v.s[1]) /\ IsNumber(v.s[2])) \/ v.s[1] > v.s[2]
            THEN [ok |-> FALSE, t |-> <<>>]
            ELSE [ok |-> TRUE,
                  t |-> <<v.s[1], IF v.s[1] = v.s[2] THEN v.s[1] ELSE NoneVal, v.s[2]>>]
      [] v.k = "tuple" /\ Len(v.s) = 3 ->
            IF ~(IsNumber(v.s[1]) /\ IsNumber(v.s[3])) THEN [ok |-> FALSE, t |-> <<>>]
            ELSE IF v.s[2] = NoneVal
            THEN IF v.s[1] > v.s[3] THEN [ok |-> FALSE, t |-> <<>>]
                 ELSE [ok |-> TRUE,
                       t |-> <<v.s[1], IF v.s[1] = v.s[3] THEN v.s[1] ELSE NoneVal, v.s[3]>>]
            ELSE IF IsNumber(v.s[2]) /\ v.s[1] <= v.s[2] /\ v.s[2] <= v.s[3]
            THEN [ok |-> TRUE, t |-> v.s]
            ELSE [ok |-> FALSE, t |-> <<>>]
      [] OTHER -> [ok |-> FALSE, t |-> <<>>]

\* AxisTriple.limitRangeAndPopulateDefaults: the triple clamped to the axis
limitRangeAndPopulateDefaults(t, axis) ==
    LET default0 == IF t[2] = NoneVal THEN axis.default_value ELSE t[2]
        minimum == Min2(Max2(t[1], axis.min_value), axis.max_value)
        maximum == Min2(Max2(t[3], axis.min_value), axis.max_value)
        default == Max2(minimum, Min2(maximum, default0))
    IN <<minimum, default, maximum>>

\* the limits of one axis the instancer works with; None pins at the default
AxisLimit(v, axis) ==
    IF v.k = "none"
    THEN <<axis.default_value, axis.default_value, axis.default_value>>
    ELSE limitRangeAndPopulateDefaults(AxisTriple(v).t, axis)

\* the call raises before it changes the font: a tag that is no axis of the
\* font, or a value that is no valid triple
InstancerRaises(f, coordinates) ==
    \E t \in CoordKeys(coordinates) :
        \/ ~HasAxis(f, t)
        \/ coordinates[t].k # "none" /\ ~AxisTriple(coordinates[t]).ok

\* instantiateFvar: pinned axes leave fvar, limited axes are narrowed, and a
\* font left without axes loses fvar; f.pinned is the location the outlines of
\* the font have been instantiated at, axis by axis
instantiateFvar(f, limited, limit, location) ==
    LET newAxis(a) ==
            IF a.tag \in limited
            THEN Axis(a.tag, limit[a.tag][1], limit[a.tag][2], limit[a.tag][3])
            ELSE a
        keptAxes == SelectSeq(f.axes, LAMBDA a : a.tag \notin location)
        keeps(inst) ==
            /\ \A t \in location : inst.coordinates[t] = limit[t][2]
            /\ \A t \in limited \ location :
                   inst.coordinates[t] = Missing
                   \/ (limit[t][1] <= inst.coordinates[t] /\ inst.coordinates[t] <= limit[t][3])
        dropPinned(inst) ==
            [inst EXCEPT !.coordinates =
                [t \in AllTags |-> IF t \in location THEN Missing ELSE @[t]]]
        keptInstances == SelectSeq(f.instances, keeps)
        pinned == [t \in AllTags |-> IF t \in location THEN limit[t][2] ELSE f.pinned[t]]
    IN IF \A i \in 1..Len(f.axes) : f.axes[i].tag \in location
       THEN [f EXCEPT !.fvar = FALSE, !.axes = <<>>, !.instances = <<>>,
                      !.pinned = pinned]
       ELSE [f EXCEPT
               !.axes = [i \in 1..Len(keptAxes) |-> newAxis(keptAxes[i])],
               !.instances = [i \in 1..Len(keptInstances) |-> dropPinned(keptInstances[i])],
               !.pinned = pinned]

\* the axes of the font the coordinates limit
LimitedAxes(f, coordinates) == AxesTagSet(f) \cap CoordKeys(coordinates)

\* axisLimits: the limit of every limited axis
AxisLimits(f, coordinates) ==
    [t \in LimitedAxes(f, coordinates) |->
        AxisLimit(coordinates[t], get_variable_axis_by_tag(f, t))]

\* axisLimits.pinnedLocation(): the axes limited to a single value
PinnedLocation(limit) == {t \in DOMAIN limit : limit[t][1] = limit[t][3]}

\* the call where it does not raise
instantiateVariableFont(f, coordinates) ==
    instantiateFvar(f, LimitedAxes(f, coordinates), AxisLimits(f, coordinates),
                    PinnedLocation(AxisLimits(f, coordinates)))

-----------------------------------------------------------------------------
(* Closest named instance.                                                  *)

\* sum of the squared differences over the tags S
RECURSIVE SquaredDistance(_, _, _)
SquaredDistance(S, a, b) ==
    IF S = {} THEN 0
    ELSE LET t == CHOOSE t \in S : TRUE
         IN (a[t] - b[t]) * (a[t] - b[t]) + SquaredDistance(S \ {t}, a, b)

\* fontbro.math.get_euclidean_distance, squared: the distance over the axis
\* tags of the instance
get_euclidean_distance(instance_values, lookup_values) ==
    SquaredDistance(Keys(instance_values), instance_values, lookup_values)

\* lookup_values of get_variable_instance_closest_to_coordinates: the numbers
\* of the coordinates, the axis default where the value is missing or None
LookupValues(f, coordinates) ==
    [t \in AllTags |->
        IF HasAxis(f, t) /\ coordinates[t].k \in {"absent", "none"}
        THEN get_variable_axis_by_tag(f, t).default_value
        ELSE IF coordinates[t].k = "num" THEN coordinates[t].s[1]
        ELSE IF coordinates[t].k = "none" THEN NoneVal ELSE Missing]

\* the distance cannot be computed: a coordinate of an instance is None
ClosestRaises(f, coordinates) ==
    \E i \in 1..Len(OrEmpty(get_variable_instances(f))) :
        \E t \in Keys(OrEmpty(get_variable_instances(f))[i].coordinates) :
            \/ ~IsNumber(OrEmpty(get_variable_instances(f))[i].coordinates[t])
            \/ ~IsNumber(LookupValues(f, coordinates)[t])

\* float(sys.maxsize), squared like the distances: above every distance
\* between two points of the model
InfiniteDistance == 2147483647

RECURSIVE ClosestFrom(_, _, _, _, _)

\* the loop taking the last of the instances at the least distance
ClosestStep_last(instances, lookup_values, i, closest_instance, closest_instance_distance, instance_distance) ==
    IF instance_distance <= closest_instance_distance
    THEN ClosestFrom(instances, lookup_values, i + 1, i, instance_distance)
    ELSE ClosestFrom(instances, lookup_values, i + 1, closest_instance,
                     closest_instance_distance)

\* the body of the loop for instance i at distance instance_distance
ClosestStep(instances, lookup_values, i, closest_instance, closest_instance_distance, instance_distance) ==
    IF instance_distance < closest_instance_distance
    THEN ClosestFrom(instances, lookup_values, i + 1, i, instance_distance)
    ELSE ClosestFrom(instances, lookup_values, i + 1, closest_instance,
                     closest_instance_distance)

\* for instance in instances, from instance i on
ClosestFrom(instances, lookup_values, i, closest_instance, closest_instance_distance) ==
    IF i > Len(instances) THEN closest_instance
    ELSE ClosestStep(instances, lookup_values, i, closest_instance,
                     closest_instance_distance,
                     get_euclidean_distance(instances[i].coordinates, lookup_values))

\* index of the closest instance in get_variable_instances, 0 for None
get_variable_instance_closest_to_coordinates(f, coordinates) ==
    IF ~is_variable(f) THEN 0
    ELSE ClosestFrom(OrEmpty(get_variable_instances(f)), LookupValues(f, coordinates),
                     1, 0, InfiniteDistance)

\* the lookup comparing the style names as they are written
get_variable_instance_by_style_name_exact(f, style_name) ==
    LET instances == OrEmpty(get_variable_instances(f))
        hits == {i \in 1..Len(instances) : instances[i].style_name = style_name}
    IN IF hits = {} THEN 0 ELSE CHOOSE i \in hits : \A j \in hits : i <= j

\* the lookup returning the last instance with the style name
get_variable_instance_by_style_name_last(f, style_name) ==
    LET instances == OrEmpty(get_variable_instances(f))
        hits == {i \in 1..Len(instances) :
                    slugify(instances[i].style_name) = slugify(style_name)}
    IN IF hits = {} THEN 0 ELSE CHOOSE i \in hits : \A j \in hits : i >= j

\* index of the first instance with the style name, 0 for None
get_variable_instance_by_style_name(f, style_name) ==
    LET instances == OrEmpty(get_variable_instances(f))
        hits == {i \in 1..Len(instances) :
                    slugify(instances[i].style_name) = slugify(style_name)}
    IN IF hits = {} THEN 0 ELSE CHOOSE i \in hits : \A j \in hits : i <= j

-----------------------------------------------------------------------------
(* Font.to_sliced_variable and Font.to_static as functions of the font and  *)
(* the arguments: the font after the call, the error raised ("" for none),  *)
(* the coordinates the instancer was called with, and the caller's          *)
(* coordinates dict after the call.                                         *)

NotCalled == [called |-> FALSE, coordinates |-> NoCoordinates]

Called(coordinates) == [called |-> TRUE, coordinates |-> coordinates]

Outcome(f, error, msg, inst, after) ==
    [font |-> f, error |-> error, msg |-> msg, inst |-> inst, after |-> after]

\* the loop with a missing 'default' key taken from the axis min_value
FriendlyValue_min(f, tag, v) ==
    CASE v.k = "list" -> Tuple(v.s)
      [] v.k = "dict" ->
            LET known == HasAxis(f, tag)
                axis == get_variable_axis_by_tag(f, tag)
                axis_min == IF v.s[1] # Missing THEN v.s[1]
                            ELSE IF known THEN axis.min_value ELSE NoneVal
                axis_default == IF v.s[2] # Missing THEN v.s[2]
                                ELSE IF known THEN axis.min_value ELSE NoneVal
                axis_max == IF v.s[3] # Missing THEN v.s[3]
                            ELSE IF known THEN axis.max_value ELSE NoneVal
            IN Tuple(<<axis_min, axis_default, axis_max>>)
      [] OTHER -> v

\* the loop with None for the keys a dict leaves out
FriendlyValue_none(f, tag, v) ==
    CASE v.k = "list" -> Tuple(v.s)
      [] v.k = "dict" ->
            Tuple(<<IF v.s[1] # Missing THEN v.s[1] ELSE NoneVal,
                    IF v.s[2] # Missing THEN v.s[2] ELSE NoneVal,
                    IF v.s[3] # Missing THEN v.s[3] ELSE NoneVal>>)
      [] OTHER -> v

\* the loop of to_sliced_variable that rewrites list and dict values
FriendlyValue(f, tag, v) ==
    CASE v.k = "list" -> Tuple(v.s)
      [] v.k = "dict" ->
            LET known == HasAxis(f, tag)
                axis == get_variable_axis_by_tag(f, tag)
                axis_min == IF v.s[1] # Missing THEN v.s[1]
                            ELSE IF known THEN axis.min_value ELSE NoneVal
                axis_default == IF v.s[2] # Missing THEN v.s[2]
                                ELSE IF known THEN axis.default_value ELSE NoneVal
                axis_max == IF v.s[3] # Missing THEN v.s[3]
                            ELSE IF known THEN axis.max_value ELSE NoneVal
            IN Tuple(<<axis_min, axis_default, axis_max>>)
      [] OTHER -> v

\* the check for empty coordinates left out
AxesNotDefined_never(coordinates) == FALSE

\* len(coordinates_axes_tags) == 0
AxesNotDefined(coordinates) == CoordKeys(coordinates) = {}

\* the coordinates name every axis of the font and all of them are pinned
AllAxesPinned(f, coordinates) ==
    CoordKeys(coordinates) = AxesTagSet(f) /\ all_axes_pinned(coordinates)

\* to_sliced_variable from its checks on; coordinates is the caller's dict as
\* the friendly loop has rewritten it
SliceCoordinates(f, coordinates) ==
    IF AxesNotDefined(coordinates)
    THEN Outcome(f, "ArgumentError", "axes not defined", NotCalled, coordinates)
    ELSE IF AllAxesPinned(f, coordinates)
    THEN Outcome(f, "ArgumentError", "all axes are pinned", NotCalled, coordinates)
    ELSE IF InstancerRaises(f, coordinates)
    THEN Outcome(f, "InstancerError", "instancer", Called(coordinates), coordinates)
    ELSE Outcome(instantiateVariableFont(f, coordinates), "", "",
                 Called(coordinates), coordinates)

to_sliced_variable(f, coordinates_arg) ==
    IF ~is_variable(f)
    THEN Outcome(f, "OperationError", "only a variable font can be sliced",
                 NotCalled, coordinates_arg)
    ELSE SliceCoordinates(f, [t \in AllTags |-> FriendlyValue(f, t, coordinates_arg[t])])

\* the style flags to_static sets from the coordinates
CoordinateNumber(coordinates, tag) ==
    IF coordinates[tag].k = "num" THEN coordinates[tag].s[1] ELSE 0

\* the check for coordinates given together with a style name left out
MutuallyExclusive_unchecked(coordinates_arg, style_name) == FALSE

\* both style_name and coordinates are given
MutuallyExclusive(coordinates_arg, style_name) ==
    style_name # <<>> /\ CoordKeys(coordinates_arg) # {}

\* the coordinates passed on without the axes left out
DefaultedCoordinates_none(f, coordinates) == coordinates

\* coordinates.update(default_coordinates): None for every axis not given
DefaultedCoordinates(f, coordinates) ==
    [t \in AllTags |->
        IF t \in AxesTagSet(f) /\ t \notin CoordKeys(coordinates)
        THEN V_none ELSE coordinates[t]]

\* the end of to_static: the style flags set from the coordinates; renamed
\* is what rename left (the instanced font itself where rename is not called)
UpdateFlagsByCoordinates(renamed, coordinates, after, update_style_flags) ==
    LET has_italic == CoordinateNumber(coordinates, "ital") = 1
        has_slant == CoordinateNumber(coordinates, "slnt") < 0
    IN IF renamed.error # ""
       THEN Outcome(renamed.font, renamed.error, renamed.msg, Called(coordinates), after)
       ELSE IF update_style_flags /\ (has_italic \/ has_slant)
       THEN Outcome(set_style_flags(renamed.font,
                                    << <<"regular", FALSE>>, <<"italic", TRUE>> >>),
                    "", "", Called(coordinates), after)
       ELSE Outcome(renamed.font, "", "", Called(coordinates), after)

\* the rename done whatever update_names says
UpdateNames_always(f, static, instance, update_names, update_style_flags) ==
    IF instance # 0
    THEN rename(static, <<>>, OrEmpty(get_variable_instances(f))[instance].style_name,
                update_style_flags)
    ELSE [font |-> static, error |-> "", msg |-> ""]

\* rename after the closest instance: static is the instanced font, instance
\* the closest instance of the font before (0 for None)
UpdateNames(f, static, instance, update_names, update_style_flags) ==
    IF instance # 0 /\ update_names
    THEN rename(static, <<>>, OrEmpty(get_variable_instances(f))[instance].style_name,
                update_style_flags)
    ELSE [font |-> static, error |-> "", msg |-> ""]

\* to_static from the pinned check on; coordinates are the defaulted
\* coordinates, after is the caller's dict as the call leaves it
PinCoordinates(f, coordinates, after, update_names, update_style_flags) ==
    IF ~all_axes_pinned(coordinates)
    THEN Outcome(f, "ArgumentError", "all axes must be pinned", NotCalled, after)
    ELSE IF ClosestRaises(f, coordinates)
    THEN Outcome(f, "TypeError", "distance", NotCalled, after)
    ELSE IF InstancerRaises(f, coordinates)
    THEN Outcome(f, "InstancerError", "instancer", Called(coordinates), after)
    ELSE UpdateFlagsByCoordinates(
             UpdateNames(f, instantiateVariableFont(f, coordinates),
                         get_variable_instance_closest_to_coordinates(f, coordinates),
                         update_names, update_style_flags),
             coordinates, after, update_style_flags)

\* to_static once the arguments are accepted: coordinates are the caller's
\* or a copy of the named instance's; the caller's dict is the one updated
\* unless it was empty or replaced
DefaultAndPin(f, coordinates, coordinates_arg, style_name, update_names, update_style_flags) ==
    PinCoordinates(f, coordinates,
                   IF style_name = <<>> /\ CoordKeys(coordinates_arg) # {}
                   THEN coordinates ELSE coordinates_arg,
                   update_names, update_style_flags)

to_static(f, coordinates_arg, style_name, update_names, update_style_flags) ==
    LET by_name == get_variable_instance_by_style_name(f, style_name)
    IN IF ~is_variable(f)
       THEN Outcome(f, "OperationError", "only a variable font can be made static",
                    NotCalled, coordinates_arg)
       ELSE IF MutuallyExclusive(coordinates_arg, style_name)
       THEN Outcome(f, "ArgumentError", "mutually exclusive", NotCalled, coordinates_arg)
       ELSE IF style_name # <<>> /\ by_name = 0
       THEN Outcome(f, "ArgumentError", "instance not found", NotCalled, coordinates_arg)
       ELSE DefaultAndPin(
                f,
                DefaultedCoordinates(
                    f,
                    IF style_name # <<>>
                    THEN CoordsOfPoint(OrEmpty(get_variable_instances(f))[by_name].coordinates)
                    ELSE coordinates_arg),
                coordinates_arg, style_name, update_names, update_style_flags)

-----------------------------------------------------------------------------
(* The instancer options of to_sliced_variable and to_static, **options: a *)
(* dict of option name to value, the values written as strings.             *)

OptionKeys == {"optimize", "overlap", "updateFontNames", "inplace"}

\* the value of a key the dict does not have
NoOption == "absent"

NoOptions == [k \in OptionKeys |-> NoOption]

\* dict.setdefault(key, value)
setdefault(options, key, value) ==
    IF options[key] = NoOption THEN [options EXCEPT ![key] = value] ELSE options

\* the defaults written over what the caller gave
SliceOptions_forced(options) ==
    [options EXCEPT !["optimize"] = "True", !["overlap"] = "KEEP_AND_SET_FLAGS",
                    !["updateFontNames"] = "False"]

\* the options of to_sliced_variable after its three setdefault calls
SliceOptions(options) ==
    setdefault(setdefault(setdefault(options, "optimize", "True"),
                          "overlap", "KEEP_AND_SET_FLAGS"),
               "updateFontNames", "False")

\* the options of to_static: inplace set, then the three setdefault calls
StaticOptions(options) ==
    setdefault(setdefault(setdefault([options EXCEPT !["inplace"] = "True"],
                                     "optimize", "True"),
                          "overlap", "REMOVE"),
               "updateFontNames", "False")

\* to_sliced_variable(coordinates, **options), r being the outcome of the
\* call without options: instantiateVariableFont(font, coordinates,
\* inplace=True, **options) is a TypeError when options has the key inplace
SliceWithOptions(f, r, options) ==
    IF r.inst.called /\ options["inplace"] # NoOption
    THEN [font |-> f, error |-> "TypeError",
          msg |-> "multiple values for keyword argument inplace",
          inst |-> NotCalled, after |-> r.after, received |-> NoOptions]
    ELSE [font |-> r.font, error |-> r.error, msg |-> r.msg, inst |-> r.inst,
          after |-> r.after,
          received |-> IF r.inst.called
                       THEN [SliceOptions(options) EXCEPT !["inplace"] = "True"]
                       ELSE NoOptions]

\* to_static(coordinates, **options), r being the outcome of the call
\* without options
StaticWithOptions(r, options) ==
    [font |-> r.font, error |-> r.error, msg |-> r.msg, inst |-> r.inst,
     after |-> r.after,
     received |-> IF r.inst.called THEN StaticOptions(options) ELSE NoOptions]

-----------------------------------------------------------------------------
(* Font.save_variable_instances: one clone of the loaded binary per named   *)
(* instance, pinned at the instance's coordinates and renamed.              *)

\* Font.clone: a new Font reading the binary the font was loaded from
\* a clone taken from the Font object as it is in memory
clone_memory(f, src) == f

clone(f, src) == src

\* the instance's coordinates dict after to_static updated it in place
PointOfCoords(c, p) ==
    [t \in AllTags |-> IF c[t].k = "none" THEN NoneVal ELSE p[t]]

RECURSIVE ExportFrom(_, _, _, _)

\* instance_font.rename(style_name=...), then the save of the instance font
ExportRenamed(f, src, i, saved, renamed) ==
    IF renamed.error # ""
    THEN [font |-> f, error |-> renamed.error, msg |-> renamed.msg, exported |-> saved]
    ELSE ExportFrom(f, src, i + 1, Append(saved, renamed.font))

\* the body of the loop after instance_font.to_static(...) with outcome
\* pinned; f has the coordinates of its instance i as that call left them
ExportPinned(f, src, i, saved, pinned) ==
    IF pinned.error # ""
    THEN [font |-> f, error |-> pinned.error, msg |-> pinned.msg, exported |-> saved]
    ELSE ExportRenamed(f, src, i, saved,
                       rename(pinned.font, <<>>,
                              OrEmpty(get_variable_instances(f))[i].style_name, TRUE))

\* instance_font.to_static(coordinates=instance["coordinates"]) on instance i
ExportInstance(f, src, i, saved, pinned) ==
    ExportPinned([f EXCEPT !.instances[i].coordinates = PointOfCoords(pinned.after, @)],
                 src, i, saved, pinned)

\* the loop from instance i on; f is the font whose instances are exported
ExportFrom(f, src, i, saved) ==
    IF i > Len(OrEmpty(get_variable_instances(f)))
    THEN [font |-> f, error |-> "", msg |-> "", exported |-> saved]
    ELSE ExportInstance(
             f, src, i, saved,
             to_static(clone(f, src),
                       CoordsOfPoint(OrEmpty(get_variable_instances(f))[i].coordinates),
                       <<>>, TRUE, TRUE))

save_variable_instances(f, src) ==
    IF ~is_variable(f)
    THEN [font |-> f, error |-> "OperationError",
          msg |-> "only a variable font can be instantiated", exported |-> <<>>]
    ELSE ExportFrom(f, src, 1, <<>>)

-----------------------------------------------------------------------------
(* Saving: Font.save and the saves under another flavor.  The file system   *)
(* is an input: whether a file exists at the path the font would be saved   *)
(* to.                                                                      *)

\* TTFont.flavor of a font that is neither woff nor woff2: None
NoFlavor == "none"

\* Font.save(filepath, overwrite=...): the error raised ("" when the font was
\* written); given tells whether a filepath was passed
save(f, given, overwrite, exists) ==
    IF ~given /\ ~f.filepath
    THEN [error |-> "ArgumentError", msg |-> "font doesn't have a filepath"]
    ELSE IF exists /\ ~overwrite
    THEN [error |-> "ArgumentError", msg |-> "a file already exists"]
    ELSE [error |-> "", msg |-> ""]

\* the end of _save_with_flavor: the flavor reverted when save returned; an
\* exception of save leaves the method before the revert
SavedWithFlavor(f, presave_flavor, saved) ==
    [font |-> IF saved.error = "" THEN [f EXCEPT !.flavor = presave_flavor] ELSE f,
     error |-> saved.error, msg |-> saved.msg]

\* Font._save_with_flavor(flavor=..., filepath=..., overwrite=...)
save_with_flavor(f, flavor, given, overwrite, exists) ==
    SavedWithFlavor([f EXCEPT !.flavor = flavor], f.flavor,
                    save([f EXCEPT !.flavor = flavor], given, overwrite, exists))

-----------------------------------------------------------------------------
(* The fonts a Font object is loaded from.                                  *)

S_MyFont == <<"M","y"," ","F","o","n","t">>

\* a family name of 56 characters: with the style "Regular" the PostScript
\* name has 64 characters, with "Italic" 63
S_LongFamily == Repeat("X", 56)

NamesOf(family, style) ==
    [k \in NameKeys |->
        CASE k \in {"family_name", "typographic_family_name"} -> family
          [] k \in {"subfamily_name", "typographic_subfamily_name"} -> style
          [] k = "full_name" -> concat_names(family, style)
          [] k \in {"postscript_name", "unique_identifier"} -> PostScriptName(family, style)
          [] OTHER -> <<>>]

Instance(point, style_name) == [coordinates |-> point, style_name |-> style_name]

\* two axes, two named instances
FontA ==
    [fvar |-> TRUE,
     axes |-> <<Axis("wght", 100, 400, 900), Axis("wdth", 75, 100, 125)>>,
     instances |-> <<Instance(Point(400, 100, Missing, Missing), S_Regular),
                     Instance(Point(700, 100, Missing, Missing), S_Bold)>>,
     names |-> NamesOf(S_MyFont, S_Regular),
     fsSelection |-> {6}, macStyle |-> {}, pinned |-> EmptyDict,
     flavor |-> NoFlavor, filepath |-> TRUE]

\* one axis, no named instance
FontB ==
    [fvar |-> TRUE,
     axes |-> <<Axis("wght", 100, 400, 900)>>,
     instances |-> <<>>,
     names |-> NamesOf(S_MyFont, S_Regular),
     fsSelection |-> {6}, macStyle |-> {}, pinned |-> EmptyDict,
     flavor |-> NoFlavor, filepath |-> TRUE]

\* a weight and an italic axis, a long family name
FontC ==
    [fvar |-> TRUE,
     axes |-> <<Axis("wght", 100, 400, 900), Axis("ital", 0, 0, 1)>>,
     instances |-> <<Instance(Point(400, Missing, 0, Missing), S_Regular),
                     Instance(Point(700, Missing, 0, Missing), S_Bold),
                     Instance(Point(400, Missing, 1, Missing), S_Italic)>>,
     names |-> NamesOf(S_LongFamily, S_Bold),
     fsSelection |-> {5}, macStyle |-> {0}, pinned |-> EmptyDict,
     flavor |-> NoFlavor, filepath |-> TRUE]

\* a static font
FontD ==
    [fvar |-> FALSE, axes |-> <<>>, instances |-> <<>>,
     names |-> NamesOf(S_MyFont, S_Bold),
     fsSelection |-> {5}, macStyle |-> {0}, pinned |-> EmptyDict,
     flavor |-> NoFlavor, filepath |-> TRUE]

Fonts == {FontA, FontB, FontC, FontD}

\* one axis, the named instances Regular {wght: 400} and Bold {wght: 700}
FontE ==
    [fvar |-> TRUE,
     axes |-> <<Axis("wght", 100, 400, 900)>>,
     instances |-> <<Instance(Point(400, Missing, Missing, Missing), S_Regular),
                     Instance(Point(700, Missing, Missing, Missing), S_Bold)>>,
     names |-> NamesOf(S_MyFont, S_Regular),
     fsSelection |-> {6}, macStyle |-> {}, pinned |-> EmptyDict,
     flavor |-> NoFlavor, filepath |-> TRUE]

\* an italic axis whose default is 1, as after to_sliced_variable with
\* {"ital": (0, 1, 1)}; the names and the flags are those of the upright
FontF ==
    [fvar |-> TRUE,
     axes |-> <<Axis("wght", 100, 400, 900), Axis("ital", 0, 1, 1)>>,
     instances |-> <<Instance(Point(400, Missing, 0, Missing), S_Regular),
                     Instance(Point(400, Missing, 1, Missing), S_Italic)>>,
     names |-> NamesOf(S_MyFont, S_Regular),
     fsSelection |-> {6}, macStyle |-> {}, pinned |-> EmptyDict,
     flavor |-> NoFlavor, filepath |-> TRUE]

S_bold == <<"b","o","l","d">>

\* one axis, two named instances whose style names differ in case only
FontG ==
    [fvar |-> TRUE,
     axes |-> <<Axis("wght", 100, 400, 900)>>,
     instances |-> <<Instance(Point(400, Missing, Missing, Missing), S_Regular),
                     Instance(Point(700, Missing, Missing, Missing), S_Bold),
                     Instance(Point(800, Missing, Missing, Missing), S_bold)>>,
     names |-> NamesOf(S_MyFont, S_Regular),
     fsSelection |-> {6}, macStyle |-> {}, pinned |-> EmptyDict,
     flavor |-> NoFlavor, filepath |-> TRUE]

S_Heavy == <<"H","e","a","v","y">>

\* one axis, two named instances with the same coordinates
FontH ==
    [fvar |-> TRUE,
     axes |-> <<Axis("wght", 100, 400, 900)>>,
     instances |-> <<Instance(Point(400, Missing, Missing, Missing), S_Regular),
                     Instance(Point(700, Missing, Missing, Missing), S_Bold),
                     Instance(Point(700, Missing, Missing, Missing), S_Heavy)>>,
     names |-> NamesOf(S_MyFont, S_Regular),
     fsSelection |-> {6}, macStyle |-> {}, pinned |-> EmptyDict,
     flavor |-> NoFlavor, filepath |-> TRUE]

\* a static font whose name table has no family and no style name, loaded
\* from a file object and not from a path
FontJ ==
    [fvar |-> FALSE, axes |-> <<>>, instances |-> <<>>,
     names |-> [k \in NameKeys |-> <<>>],
     fsSelection |-> {6}, macStyle |-> {}, pinned |-> EmptyDict,
     flavor |-> NoFlavor, filepath |-> FALSE]

\* a weight and a slant axis; the named instance Bold is slanted
FontI ==
    [fvar |-> TRUE,
     axes |-> <<Axis("wght", 100, 400, 900), Axis("slnt", 0 - 10, 0, 0)>>,
     instances |-> <<Instance(Point(400, Missing, Missing, 0), S_Regular),
                     Instance(Point(700, Missing, Missing, 0 - 10), S_Bold)>>,
     names |-> NamesOf(S_MyFont, S_Regular),
     fsSelection |-> {6}, macStyle |-> {}, pinned |-> EmptyDict,
     flavor |-> NoFlavor, filepath |-> TRUE]

-----------------------------------------------------------------------------
(* The arguments of the calls.                                              *)

\* the values a caller gives for an axis tag
ValuesFor(tag) ==
    CASE tag = "wght" ->
            {V_absent, V_none, Num(400), Num(700), Num(1000)}
            \cup {Tuple(<<a, b>>) : a, b \in {400, 700}}
            \cup {List(<<a, b>>) : a, b \in {400, 700}}
            \cup {Tuple(<<a, b, c>>) : a, b, c \in {400, 700}}
            \cup {Dict(a, b, c) : a, b, c \in {Missing, 700}}
            \cup {Dict(400, Missing, 400), Dict(400, Missing, 700),
                  Tuple(<<400, 1000>>), Tuple(<<700, 1000>>)}
      [] tag = "wdth" -> {V_absent, Num(100), Num(125), Tuple(<<100, 125>>)}
      [] tag = "ital" -> {V_absent, Num(0), Num(1), Tuple(<<0, 1>>)}
      [] OTHER -> {V_absent}

\* the axis tags callers of a font loaded from src give values for
InputTags(src) == IF is_variable(src) THEN AxesTagSet(src) ELSE {"wght"}

ValuesGiven(src, tag) == IF tag \in InputTags(src) THEN ValuesFor(tag) ELSE {V_absent}

CoordinatesFor(src) ==
    {[t \in AllTags |->
         CASE t = "wght" -> w [] t = "wdth" -> d [] t = "ital" -> i [] OTHER -> V_absent] :
       w \in ValuesGiven(src, "wght"), d \in ValuesGiven(src, "wdth"),
       i \in ValuesGiven(src, "ital")}

\* style names given to to_static; the second differs from "Bold" in case and
\* whitespace only
StyleNames == {S_Bold, <<" ","b","O","L","D">>, S_Regular, S_Italic, S_Heavy}

AllNumbers(c) == \A t \in AllTags : c[t].k \in {"absent", "none", "num"}


-----------------------------------------------------------------------------
(* The state machine: a Font is loaded, then called.                        *)

NoCall ==
    [op |-> "load", coordinates |-> NoCoordinates, style_name |-> <<>>,
     update_names |-> TRUE, update_style_flags |-> TRUE,
     error |-> "", msg |-> "", inst |-> NotCalled, after |-> NoCoordinates]

Init ==
    /\ source \in Fonts
    /\ font = source
    /\ last = NoCall
    /\ before = source
    /\ exported = <<>>
    /\ calls = 0

\* the effect of a call of to_sliced_variable or to_static with outcome r
Returned(op, coordinates, style_name, update_names, update_style_flags, r) ==
    /\ font' = r.font
    /\ last' = [op |-> op, coordinates |-> coordinates, style_name |-> style_name,
                update_names |-> update_names,
                update_style_flags |-> update_style_flags,
                error |-> r.error, msg |-> r.msg, inst |-> r.inst, after |-> r.after]
    /\ before' = font
    /\ calls' = calls + 1
    /\ UNCHANGED <<source, exported>>

ToSlicedVariable ==
    /\ calls < MaxCalls
    /\ \E c \in CoordinatesFor(source) :
          \E r \in {to_sliced_variable(font, c)} :
              Returned("to_sliced_variable", c, <<>>, TRUE, TRUE, r)

\* to_static(coordinates=c, update_names=un, update_style_flags=usf); the two
\* flags vary where the coordinates are plain numbers
ToStatic ==
    /\ calls < MaxCalls
    /\ \E c \in CoordinatesFor(source), un \in BOOLEAN, usf \in BOOLEAN :
          /\ (IF AllNumbers(c) THEN TRUE ELSE un /\ usf)
          /\ \E r \in {to_static(font, c, <<>>, un, usf)} :
                Returned("to_static", c, <<>>, un, usf, r)

\* to_static(style_name=sn, ...), alone or together with coordinates
ToStaticByStyleName ==
    /\ calls < MaxCalls
    /\ \E c \in {NoCoordinates, [NoCoordinates EXCEPT !["wght"] = Num(700)],
                 [NoCoordinates EXCEPT !["wght"] = Tuple(<<400, 700>>)]},
          sn \in StyleNames, un \in BOOLEAN, usf \in BOOLEAN :
          /\ (IF c = NoCoordinates THEN TRUE ELSE un /\ usf)
          /\ \E r \in {to_static(font, c, sn, un, usf)} :
                Returned("to_static", c, sn, un, usf, r)

SaveVariableInstances ==
    /\ calls < MaxCalls
    /\ \E r \in {save_variable_instances(font, source)} :
          /\ font' = r.font
          /\ last' = [NoCall EXCEPT !.op = "save_variable_instances",
                                    !.error = r.error, !.msg = r.msg]
          /\ exported' = r.exported
    /\ before' = font
    /\ calls' = calls + 1
    /\ UNCHANGED source

Next ==
    \/ ToSlicedVariable
    \/ ToStatic
    \/ ToStaticByStyleName
    \/ SaveVariableInstances

Spec == Init /\ [][Next]_vars

-----------------------------------------------------------------------------
(* A second state machine: a Font is loaded and one of its methods is       *)
(* called once, with arguments the first machine does not draw.             *)

\* the calls of the second machine on one Font
MaxMethodCalls == 1

MethodFonts == {FontA, FontB, FontC, FontD, FontE, FontF, FontG, FontH, FontI, FontJ}

InitMethods ==
    /\ source \in MethodFonts
    /\ font = source
    /\ last = NoCall
    /\ before = source
    /\ exported = <<>>
    /\ calls = 0

\* the numbers a caller looks a named instance up with
LookupNumbers(tag) ==
    CASE tag = "wght" -> {V_absent, V_none, Num(400), Num(550), Num(600), Num(700)}
      [] tag = "wdth" -> {V_absent, Num(100), Num(125)}
      [] tag = "ital" -> {V_absent, Num(0), Num(1)}
      [] OTHER -> {V_absent}

LookupGiven(src, tag) == IF tag \in InputTags(src) THEN LookupNumbers(tag) ELSE {V_absent}

LookupCoordinates(src) ==
    {[t \in AllTags |->
         CASE t = "wght" -> w [] t = "wdth" -> d [] t = "ital" -> i [] OTHER -> V_absent] :
       w \in LookupGiven(src, "wght"), d \in LookupGiven(src, "wdth"),
       i \in LookupGiven(src, "ital")}

\* the effect of a call that returns result and leaves the font alone
Answered(op, coordinates, error, msg, result) ==
    /\ last' = [op |-> op, coordinates |-> coordinates, error |-> error, msg |-> msg,
                result |-> result]
    /\ before' = font
    /\ calls' = calls + 1
    /\ UNCHANGED <<font, source, exported>>

\* get_variable_instance_closest_to_coordinates(coordinates=c)
GetVariableInstanceClosestToCoordinates ==
    /\ calls < MaxMethodCalls
    /\ \E c \in LookupCoordinates(source) :
          IF is_variable(font) /\ ClosestRaises(font, c)
          THEN Answered("get_variable_instance_closest_to_coordinates", c,
                        "TypeError", "distance", 0)
          ELSE Answered("get_variable_instance_closest_to_coordinates", c, "", "",
                        get_variable_instance_closest_to_coordinates(font, c))

\* the style names given to to_static by the second machine
MethodStyleNames == StyleNames \cup {S_bold}

\* to_static(style_name=sn, update_names=un, update_style_flags=usf); next to
\* it, for every named instance, the same call with coordinates = a copy of
\* the instance's coordinates on an equal font (by_coordinates)
ToStaticByStyleNameOrCoordinates ==
    /\ calls < MaxMethodCalls
    /\ \E sn \in MethodStyleNames, un \in BOOLEAN, usf \in BOOLEAN :
          \E r \in {to_static(font, NoCoordinates, sn, un, usf)} :
              /\ font' = r.font
              /\ last' = [op |-> "to_static", coordinates |-> NoCoordinates,
                          style_name |-> sn, update_names |-> un,
                          update_style_flags |-> usf,
                          error |-> r.error, msg |-> r.msg, inst |-> r.inst,
                          after |-> r.after,
                          by_coordinates |->
                              [i \in 1..Len(OrEmpty(get_variable_instances(font))) |->
                                  to_static(font,
                                            CoordsOfPoint(OrEmpty(get_variable_instances(font))[i].coordinates),
                                            <<>>, un, usf)]]
    /\ before' = font
    /\ calls' = calls + 1
    /\ UNCHANGED <<source, exported>>

\* to_static(coordinates=c, update_names=un, update_style_flags=usf) with
\* plain numbers
ToStaticAtNumbers ==
    /\ calls < MaxMethodCalls
    /\ \E c \in LookupCoordinates(source), un \in BOOLEAN, usf \in BOOLEAN :
          \E r \in {to_static(font, c, <<>>, un, usf)} :
              Returned("to_static", c, <<>>, un, usf, r)

\* the family names given to rename: none, names of 7, 56 and 69 characters,
\* one with characters a PostScript name may not have, one padded with spaces
FamilyNames ==
    {<<>>, S_MyFont, S_LongFamily, Repeat("X", 69), <<"(","M","y",")">>,
     <<" ">> \o S_MyFont \o <<" ">>}

\* the style names given to rename
RenameStyleNames ==
    {<<>>, S_Regular, S_Italic, S_Bold, S_BoldItalic, S_Heavy, <<" ">> \o S_Bold \o <<" ">>,
     S_Heavy \o <<" ">> \o S_Italic}

\* rename(family_name=fam, style_name=sty, update_style_flags=usf); next to
\* it, the outcome of the same call made once more on the renamed font (again)
Rename ==
    /\ calls < MaxMethodCalls
    /\ \E fam \in FamilyNames, sty \in RenameStyleNames, usf \in BOOLEAN :
          \E r \in {rename(font, fam, sty, usf)} :
              /\ font' = r.font
              /\ last' = [op |-> "rename", family_name |-> fam, style_name |-> sty,
                          update_style_flags |-> usf, error |-> r.error, msg |-> r.msg,
                          again |-> rename(r.font, fam, sty, usf)]
    /\ before' = font
    /\ calls' = calls + 1
    /\ UNCHANGED <<source, exported>>

\* the values a caller slices an axis with, all inside the declared range of
\* the axis: numbers, pairs, triples and mappings, as tuples and as lists
SliceValues(tag) ==
    CASE tag = "wght" ->
            {V_absent, Num(700), Tuple(<<700, 900>>), List(<<700, 900>>),
             Tuple(<<400, 900>>), List(<<400, 900>>), Tuple(<<100, 300>>),
             Tuple(<<700, 700>>), List(<<700, 700>>),
             Tuple(<<700, 800, 900>>), List(<<700, 800, 900>>),
             Tuple(<<100, 400, 900>>), Dict(700, 800, Missing), Dict(700, 800, 900),
             Dict(Missing, Missing, 700), Dict(Missing, 300, Missing),
             Dict(700, Missing, Missing)}
      [] tag = "wdth" -> {V_absent, Num(100), Tuple(<<100, 125>>), List(<<75, 100>>)}
      [] tag = "ital" -> {V_absent, Tuple(<<0, 1>>), Dict(Missing, 1, Missing)}
      [] OTHER -> {V_absent}

SliceGiven(src, tag) == IF tag \in InputTags(src) THEN SliceValues(tag) ELSE {V_absent}

SliceCoordinatesFor(src) ==
    {[t \in AllTags |->
         CASE t = "wght" -> w [] t = "wdth" -> d [] t = "ital" -> i [] OTHER -> V_absent] :
       w \in SliceGiven(src, "wght"), d \in SliceGiven(src, "wdth"),
       i \in SliceGiven(src, "ital")}

\* to_sliced_variable(coordinates=c) with values inside the declared ranges
ToSlicedVariableWithin ==
    /\ calls < MaxMethodCalls
    /\ \E c \in SliceCoordinatesFor(source) :
          \E r \in {to_sliced_variable(font, c)} :
              Returned("to_sliced_variable", c, <<>>, TRUE, TRUE, r)

\* the options a caller gives; updateFontNames = True, which makes the
\* instancer write name records from the STAT table, is not drawn
OptionsGiven ==
    {[k \in OptionKeys |->
         CASE k = "optimize" -> a [] k = "overlap" -> b
           [] k = "updateFontNames" -> c [] OTHER -> d] :
       a \in {NoOption, "False", "True"},
       b \in {NoOption, "KEEP_AND_DONT_SET_FLAGS", "REMOVE"},
       c \in {NoOption, "False"},
       d \in {NoOption, "False", "True"}}

\* the coordinates of the calls with options
OptionCoordinates ==
    {NoCoordinates, [NoCoordinates EXCEPT !["wght"] = Num(700)],
     [NoCoordinates EXCEPT !["wght"] = Tuple(<<400, 700>>)]}

\* the effect of a call with options o and outcome r
ReturnedWithOptions(op, coordinates, o, r) ==
    /\ font' = r.font
    /\ last' = [op |-> op, coordinates |-> coordinates, style_name |-> <<>>,
                update_names |-> TRUE, update_style_flags |-> TRUE,
                error |-> r.error, msg |-> r.msg, inst |-> r.inst, after |-> r.after,
                options |-> o, received |-> r.received]
    /\ before' = font
    /\ calls' = calls + 1
    /\ UNCHANGED <<source, exported>>

\* to_sliced_variable(coordinates=c, **o)
ToSlicedVariableWithOptions ==
    /\ calls < MaxMethodCalls
    /\ \E c \in OptionCoordinates, o \in OptionsGiven :
          \E r \in {to_sliced_variable(font, c)} :
              ReturnedWithOptions("to_sliced_variable", c, o, SliceWithOptions(font, r, o))

\* to_static(coordinates=c, **o)
ToStaticWithOptions ==
    /\ calls < MaxMethodCalls
    /\ \E c \in OptionCoordinates, o \in OptionsGiven :
          \E r \in {to_static(font, c, <<>>, TRUE, TRUE)} :
              ReturnedWithOptions("to_static", c, o, StaticWithOptions(r, o))

\* the flags a call of set_style_flags gives a value other than None
MaxFlagsGiven == 3

\* the keyword arguments of set_style_flags: "True", "False" or "None" for
\* each of the eight flags
FlagsGiven ==
    {g \in [{StyleFlagsKeys[i] : i \in 1..Len(StyleFlagsKeys)} -> {"True", "False", "None"}] :
        Cardinality({k \in DOMAIN g : g[k] # "None"}) <= MaxFlagsGiven}

\* flags.items() without the None values, in keyword order
FlagItems(g) ==
    LET keys == SelectSeq(StyleFlagsKeys, LAMBDA k : g[k] # "None")
    IN [i \in 1..Len(keys) |-> <<keys[i], g[keys[i]] = "True">>]

\* set_style_flags(**g)
SetStyleFlags ==
    /\ calls < MaxMethodCalls
    /\ \E g \in FlagsGiven :
          /\ font' = set_style_flags(font, FlagItems(g))
          /\ last' = [op |-> "set_style_flags", flags |-> g, error |-> "", msg |-> ""]
    /\ before' = font
    /\ calls' = calls + 1
    /\ UNCHANGED <<source, exported>>

\* save_variable_instances(dirpath) on the font as loaded
SaveVariableInstancesAsLoaded ==
    /\ calls < MaxMethodCalls
    /\ \E r \in {save_variable_instances(font, source)} :
          /\ font' = r.font
          /\ last' = [op |-> "save_variable_instances", error |-> r.error, msg |-> r.msg]
          /\ exported' = r.exported
    /\ before' = font
    /\ calls' = calls + 1
    /\ UNCHANGED source

\* clone(), at any moment; the clone is kept in exported
Clone ==
    /\ last.op \notin {"clone", "clone.rename"}
    /\ exported' = <<clone(font, source)>>
    /\ last' = [op |-> "clone", error |-> "", msg |-> ""]
    /\ before' = font
    /\ UNCHANGED <<font, source, calls>>

\* rename(style_name=sty) called on the clone just taken
RenameClone ==
    /\ last.op = "clone"
    /\ \E sty \in {S_Bold, S_Italic} :
          \E r \in {rename(exported[1], <<>>, sty, TRUE)} :
              /\ exported' = <<r.font>>
              /\ last' = [op |-> "clone.rename", error |-> r.error, msg |-> r.msg]
    /\ before' = font
    /\ UNCHANGED <<font, source, calls>>

\* save_as_woff / save_as_woff2 (filepath given or not, overwrite=ow), a file
\* existing or not at the path saved to
SaveWithFlavor ==
    /\ calls < MaxMethodCalls
    /\ \E flavor \in {"woff", "woff2"}, given \in BOOLEAN, ow \in BOOLEAN, exists \in BOOLEAN :
          \E r \in {save_with_flavor(font, flavor, given, ow, exists)} :
              /\ font' = r.font
              /\ last' = [op |-> "save_with_flavor", flavor |-> flavor, given |-> given,
                          overwrite |-> ow, exists |-> exists,
                          error |-> r.error, msg |-> r.msg]
    /\ before' = font
    /\ calls' = calls + 1
    /\ UNCHANGED <<source, exported>>

NextMethods ==
    \/ GetVariableInstanceClosestToCoordinates
    \/ SaveWithFlavor
    \/ Clone
    \/ RenameClone
    \/ SaveVariableInstancesAsLoaded
    \/ SetStyleFlags
    \/ ToSlicedVariableWithOptions
    \/ ToStaticWithOptions
    \/ ToSlicedVariableWithin
    \/ Rename
    \/ ToStaticAtNumbers
    \/ ToStaticByStyleNameOrCoordinates

SpecMethods == InitMethods /\ [][NextMethods]_vars

-----------------------------------------------------------------------------
(* Properties.  They read the last call (last), the font it started from    *)
(* (before) and the font it left (font).                                    *)

IsPin == last.op = "to_static"

IsSlice == last.op = "to_sliced_variable"

AxisOf(f, tag) == get_variable_axis_by_tag(f, tag)

\* the (min, default, max) triple a raw coordinate stands for on an axis: a
\* number v is (v, v, v), a 2-element sequence (v0, v1) is (v0, axis default
\* unless v0 = v1, v1), a 3-element sequence is itself, a mapping takes the
\* axis's own value for each key it leaves out, None is the axis default
NormalTriple(axis, v) ==
    CASE v.k = "num" -> <<v.s[1], v.s[1], v.s[1]>>
      [] v.k = "none" -> <<axis.default_value, axis.default_value, axis.default_value>>
      [] v.k \in {"tuple", "list"} /\ Len(v.s) = 2 ->
            <<v.s[1], IF v.s[1] = v.s[2] THEN v.s[1] ELSE axis.default_value, v.s[2]>>
      [] v.k \in {"tuple", "list"} /\ Len(v.s) = 3 -> v.s
      [] v.k = "dict" ->
            <<IF v.s[1] = Missing THEN axis.min_value ELSE v.s[1],
              IF v.s[2] = Missing THEN axis.default_value ELSE v.s[2],
              IF v.s[3] = Missing THEN axis.max_value ELSE v.s[3]>>

\* a triple that is a single value
SingleValue(t) == t[1] = t[2] /\ t[2] = t[3]

\* a triple moved into the declared range of the axis: min and max into
\* [min_value, max_value], the default into the resulting [min, max]
ClampedTriple(axis, t) ==
    LET lo == Min2(Max2(t[1], axis.min_value), axis.max_value)
        hi == Min2(Max2(t[3], axis.min_value), axis.max_value)
    IN <<lo, Max2(lo, Min2(hi, t[2])), hi>>

PostScriptTooLong == last.error = "ArgumentError" /\ last.msg = "postscript name too long"

\* C1: every ArgumentError of to_static and to_sliced_variable is raised
\* before the font is changed: after the failed call the font equals the font
\* before the call
C1_ArgumentErrorLeavesFontUnmodified ==
    (last.op \in {"to_static", "to_sliced_variable"} /\ last.error = "ArgumentError")
        => font = before

C2_Pre ==
    /\ IsPin
    /\ is_variable(before)
    /\ CoordKeys(last.coordinates) # {}
    /\ last.style_name # <<>>

\* C2: to_static on a variable font with both coordinates and style_name
\* raises ArgumentError and leaves the font unchanged and variable, whether
\* or not the style name matches a named instance
C2_BothSourcesRejected ==
    C2_Pre => (last.error = "ArgumentError" /\ font = before /\ is_variable(font))

\* a call with coordinates and a style name that matches a named instance
C2_Witness ==
    /\ C2_Pre
    /\ get_variable_instance_by_style_name(before, last.style_name) # 0
    /\ last.error = "ArgumentError"

\* the coordinates name every axis of the font the call started from, each
\* with a single value
C3_Pre ==
    /\ IsSlice
    /\ is_variable(before)
    /\ CoordKeys(last.coordinates) = AxesTagSet(before)
    /\ \A t \in CoordKeys(last.coordinates) :
           SingleValue(NormalTriple(AxisOf(before, t), last.coordinates[t]))

\* C3: to_sliced_variable raises ArgumentError, without calling the
\* instancer, whenever the coordinates cover every axis with a single pinned
\* value, in whatever form the value is written
C3_AllPinnedSliceRejected ==
    C3_Pre => (last.error = "ArgumentError" /\ ~last.inst.called)

C4_Pre ==
    /\ IsPin
    /\ is_variable(before)
    /\ last.style_name = <<>>
    /\ CoordKeys(last.coordinates) \subseteq AxesTagSet(before)

\* C4: to_static raises the 'all axes must be pinned' error exactly when some
\* given coordinate stands for a triple with min # max; a sequence or mapping
\* with min = max counts as pinned
C4_PinErrorExactlyWhenUnpinned ==
    C4_Pre =>
        ((last.error = "ArgumentError" /\ last.msg = "all axes must be pinned")
         <=> \E t \in CoordKeys(last.coordinates) :
                 LET n == NormalTriple(AxisOf(before, t), last.coordinates[t])
                 IN n[1] # n[3])

\* to_static with plain numbers for some (or none, or all) of the axes
C5_Pre ==
    /\ C4_Pre
    /\ \A t \in CoordKeys(last.coordinates) : last.coordinates[t].k = "num"

\* the point looked up: the number given, the axis default where none is
C5_Point ==
    [t \in AllTags |->
        IF t \notin AxesTagSet(before) THEN Missing
        ELSE IF t \in CoordKeys(last.coordinates) THEN last.coordinates[t].s[1]
        ELSE AxisOf(before, t).default_value]

\* every axis left out is pinned at its default, every axis given at the
\* number given (moved into the range of the axis)
C5_PinnedAtDefaults ==
    /\ ~is_variable(font)
    /\ \A t \in AxesTagSet(before) :
           font.pinned[t] =
               IF t \in CoordKeys(last.coordinates)
               THEN Min2(Max2(C5_Point[t], AxisOf(before, t).min_value),
                         AxisOf(before, t).max_value)
               ELSE AxisOf(before, t).default_value

\* no named instance is closer to the point than instance i, and none before
\* i is as close
C5_Nearest(i) ==
    LET instances == before.instances
        d(j) == SquaredDistance(Keys(instances[j].coordinates),
                                instances[j].coordinates, C5_Point)
    IN /\ i \in 1..Len(instances)
       /\ \A j \in 1..Len(instances) : d(i) <= d(j)
       /\ \A j \in 1..(i - 1) : d(j) > d(i)

\* a named instance of the font has a coordinate that is None
C5_InstanceWithNone ==
    \E i \in 1..Len(before.instances) :
        \E t \in AllTags : before.instances[i].coordinates[t] = NoneVal

C6_Pre ==
    /\ last.op \in {"to_static", "to_sliced_variable", "save_variable_instances"}
    /\ ~before.fvar

\* C6: on a static font the three operations raise OperationError whatever
\* the arguments and leave the font unchanged
C6_StaticFontRejected ==
    C6_Pre => (last.error = "OperationError" /\ font = before)

\* to_static on a static font with arguments that are an ArgumentError on a
\* variable font
C6_Witness ==
    /\ C6_Pre
    /\ IsPin
    /\ MutuallyExclusive(last.coordinates, last.style_name)
    /\ last.error = "OperationError"

\* what the getters return on a static font
C7_StaticView(f) ==
    /\ ~is_variable(f)
    /\ is_static(f)
    /\ get_variable_axes(f) = None
    /\ get_variable_axes_tags(f) = None
    /\ get_variable_instances(f) = None
    /\ \A c \in CoordinatesFor(source) :
           get_variable_instance_closest_to_coordinates(f, c) = 0

\* C7: a successful to_static leaves a static font, and a static font stays
\* static: every later to_static or to_sliced_variable raises OperationError
C7_StaticIsAbsorbing ==
    [][/\ (last'.op = "to_static" /\ last'.error = "") => C7_StaticView(font')
       /\ ~is_variable(font) =>
              /\ C7_StaticView(font')
              /\ last'.op \in {"to_static", "to_sliced_variable"}
                     => last'.error = "OperationError"]_vars

\* a font pinned at its own defaults by to_static, then sliced in vain
C7_Witness ==
    /\ source = FontA
    /\ ~is_variable(before)
    /\ before.pinned["wght"] = 400 /\ before.pinned["wdth"] = 100
    /\ IsSlice
    /\ last.error = "OperationError"
    /\ C7_StaticView(font)

\* C8: a successful to_sliced_variable leaves a variable font with an axis
\* whose min is below its max
C8_SliceStaysVariable ==
    (IsSlice /\ last.error = "") =>
        /\ is_variable(font)
        /\ \E i \in 1..Len(font.axes) : font.axes[i].min_value < font.axes[i].max_value

\* the axes after a successful slice, the named ones restricted to triple(t)
C9_Sliced(triple(_)) ==
    \A i \in 1..Len(before.axes) :
        LET a == before.axes[i]
        IN IF a.tag \notin CoordKeys(last.coordinates)
           THEN is_variable(font) /\ HasAxis(font, a.tag) /\ AxisOf(font, a.tag) = a
           ELSE IF triple(a.tag)[1] = triple(a.tag)[3]
           THEN ~HasAxis(font, a.tag) /\ font.pinned[a.tag] = triple(a.tag)[2]
           ELSE /\ HasAxis(font, a.tag)
                /\ AxisOf(font, a.tag) =
                       Axis(a.tag, triple(a.tag)[1], triple(a.tag)[2], triple(a.tag)[3])

C9_Given(tag) == NormalTriple(AxisOf(before, tag), last.coordinates[tag])

C9_Clamped(tag) == ClampedTriple(AxisOf(before, tag), C9_Given(tag))

\* C9 as stated: a successful slice restricts each axis named to the given
\* triple and leaves every other axis as declared
C9_SliceToGivenTriple ==
    (IsSlice /\ last.error = "") => C9_Sliced(C9_Given)

\* C9 amended: a successful slice restricts each axis named to the given
\* triple moved into the declared range of the axis (an axis left with a
\* single value becomes fixed at it) and leaves every other axis as declared
C9_SliceToClampedTriple ==
    (IsSlice /\ last.error = "") => C9_Sliced(C9_Clamped)

\* a slice that narrows wght by a mapping, fixes nothing and leaves wdth alone
C9_Witness ==
    /\ IsSlice /\ last.error = ""
    /\ before = FontA
    /\ CoordKeys(last.coordinates) = {"wght"}
    /\ last.coordinates["wght"] = Dict(Missing, Missing, 700)
    /\ AxisOf(font, "wght") = Axis("wght", 100, 400, 700)
    /\ AxisOf(font, "wdth") = Axis("wdth", 75, 100, 125)

C10_Pre == IsSlice /\ is_variable(before) /\ CoordKeys(last.coordinates) = {}

\* C10: to_sliced_variable on a variable font with coordinates that name no
\* axis raises ArgumentError and does not call the instancer
C10_EmptySliceRejected ==
    C10_Pre =>
        /\ last.error = "ArgumentError" /\ last.msg = "axes not defined"
        /\ ~last.inst.called
        /\ font = before

C10_Witness == C10_Pre /\ last.error = "ArgumentError" /\ calls = 1

\* the final coordinates of a to_static call as a point: the number pinned,
\* the axis default where the instancer was given None
C14_Point ==
    [t \in AllTags |->
        IF t \notin AxesTagSet(before) THEN Missing
        ELSE IF last.inst.coordinates[t].k = "num" THEN last.inst.coordinates[t].s[1]
        ELSE AxisOf(before, t).default_value]

\* named instance i of the font before the call is the closest to the final
\* coordinates, the first of those equally close
C14_Closest(i) ==
    LET instances == before.instances
        d(j) == SquaredDistance({t \in AllTags : instances[j].coordinates[t] # Missing},
                                instances[j].coordinates, C14_Point)
    IN /\ \A j \in 1..Len(instances) : d(i) <= d(j)
       /\ \A j \in 1..(i - 1) : d(j) > d(i)

\* C14: after a successful to_static with update_names = True on a font with
\* a named instance, the style name (name ID 17) is the style name of the
\* instance closest to the final coordinates, looked up on the font before
\* instancing; with update_names = False or no named instance the name
\* records are the ones the instancer left
C14_RenamedAfterClosestInstance ==
    IsPin /\ last.error = "" =>
        IF last.update_names /\ before.instances # <<>>
        THEN \E i \in 1..Len(before.instances) :
                 /\ C14_Closest(i)
                 /\ get_name(font, "typographic_subfamily_name")
                        = before.instances[i].style_name
        ELSE font.names = before.names

\* FontA, named Regular, pinned at {wght: 700}: the style name becomes Bold
C14_Witness ==
    /\ IsPin
    /\ last.error = ""
    /\ last.update_names
    /\ before = FontA
    /\ get_name(before, "typographic_subfamily_name") = S_Regular
    /\ C14_Point["wght"] = 700
    /\ C14_Closest(2)
    /\ get_name(font, "typographic_subfamily_name") = S_Bold

\* the step repeats the last call: the same operation with the same arguments
C20_Repeated ==
    /\ last'.op = last.op
    /\ last'.coordinates = last.coordinates
    /\ last'.style_name = last.style_name
    /\ last'.update_names = last.update_names
    /\ last'.update_style_flags = last.update_style_flags

\* C20: when a to_static or to_sliced_variable call fails, the same call made
\* again on the same Font with the same arguments fails again with the same
\* error type and message, whatever the failure, a PostScript name that is
\* too long included
C20_FailuresRepeat ==
    [][((IsPin \/ IsSlice) /\ last.error # "" /\ C20_Repeated)
          => (last'.error = last.error /\ last'.msg = last.msg)]_vars

IsExport == last.op = "save_variable_instances"

\* the font exported for named instance i of the font the call started from:
\* a clone pinned at the instance's coordinates and renamed after it
C22_Exported(i) ==
    rename(to_static(clone(before, source), CoordsOfPoint(before.instances[i].coordinates),
                     <<>>, TRUE, TRUE).font,
           <<>>, before.instances[i].style_name, TRUE).font

\* C22: save_variable_instances leaves the font it is called on unchanged,
\* whether it returns or raises, and when it returns there is one exported
\* font per named instance, in declaration order, each made from a clone of
\* its own
C22_ExportLeavesFontUnchanged ==
    IsExport =>
        /\ font = before
        /\ last.error = "" =>
              /\ Len(exported) = Len(before.instances)
              /\ \A i \in 1..Len(exported) : exported[i] = C22_Exported(i)

\* C29: to_static and to_sliced_variable leave the coordinates mapping of the
\* caller with the keys and values it had, whether they return or raise, and
\* to_static(style_name=S) leaves the coordinates of the named instances
C29_CoordinatesNotModified ==
    /\ (IsPin \/ IsSlice) => last.after = last.coordinates
    /\ (IsPin /\ last.style_name # <<>> /\ font.fvar) => font.instances = before.instances

-----------------------------------------------------------------------------
(* Properties of the second machine.                                        *)

IsLookup == last.op = "get_variable_instance_closest_to_coordinates" /\ last.error = ""

\* the lookup point: the given numbers, the axis default where the value is
\* missing or None
C11_LookupPoint ==
    [t \in AllTags |->
        IF last.coordinates[t].k = "num" THEN last.coordinates[t].s[1]
        ELSE IF HasAxis(before, t) THEN get_variable_axis_by_tag(before, t).default_value
        ELSE Missing]

\* the squared distance of named instance i from the lookup point
C11_Distance(i) ==
    LET p == before.instances[i].coordinates
    IN SquaredDistance({t \in AllTags : p[t] # Missing}, p, C11_LookupPoint)

\* C11: get_variable_instance_closest_to_coordinates returns the first named
\* instance, in declaration order, among those at the least Euclidean distance
\* from the lookup point, and None for a font that is not variable or has no
\* named instance; with Regular {wght: 400} and Bold {wght: 700}, {wght: 600}
\* gives Bold and the tie {wght: 550} gives Regular
C11_ClosestIsFirstAtLeastDistance ==
    IsLookup =>
        /\ IF ~before.fvar \/ before.instances = <<>> THEN last.result = 0
           ELSE /\ last.result \in 1..Len(before.instances)
                /\ \A j \in 1..Len(before.instances) :
                       /\ C11_Distance(last.result) <= C11_Distance(j)
                       /\ j < last.result => C11_Distance(j) > C11_Distance(last.result)
        /\ before = FontE /\ last.coordinates["wght"] = Num(600) => last.result = 2
        /\ before = FontE /\ last.coordinates["wght"] = Num(550) => last.result = 1
        /\ font = before

\* the tie of the example: {wght: 550} is 150 from Regular and from Bold
C11_Witness ==
    /\ IsLookup
    /\ before = FontE
    /\ last.coordinates["wght"] = Num(550)
    /\ C11_Distance(1) = C11_Distance(2)
    /\ last.result = 1

\* a call to_static(style_name=S) on a variable font
IsPinByStyleName ==
    IsPin /\ last.style_name # <<>> /\ CoordKeys(last.coordinates) = {} /\ before.fvar

\* two style names are the same but for case and whitespace
C12_SameName(a, b) ==
    Lower(SelectSeq(a, LAMBDA c : c # " ")) = Lower(SelectSeq(b, LAMBDA c : c # " "))

\* the named instances of the font before the call matching the style name
C12_Matching ==
    {i \in 1..Len(before.instances) :
        C12_SameName(before.instances[i].style_name, last.style_name)}

\* C12: to_static(style_name=S) takes the first named instance, in declaration
\* order, whose style name is S but for case and whitespace, and pins the font
\* at its coordinates; with no such instance it raises ArgumentError and the
\* font stays variable and unchanged
C12_StyleNameResolvedOrRejected ==
    IsPinByStyleName =>
        IF C12_Matching = {}
        THEN /\ last.error = "ArgumentError"
             /\ last.msg = "instance not found"
             /\ font = before
             /\ font.fvar
        ELSE /\ last.msg # "instance not found"
             /\ last.inst.called
             /\ \E i \in C12_Matching :
                    /\ \A j \in C12_Matching : i <= j
                    /\ \A t \in AllTags :
                           before.instances[i].coordinates[t] # Missing =>
                               last.inst.coordinates[t] = Num(before.instances[i].coordinates[t])

\* " bOLD" resolves to Bold, the first of the two instances it matches
C12_Witness ==
    /\ IsPinByStyleName
    /\ before = FontG
    /\ last.style_name = <<" ","b","O","L","D">>
    /\ Cardinality(C12_Matching) = 2
    /\ last.inst.coordinates["wght"] = Num(700)
    /\ last.error = ""
    /\ ~font.fvar

\* the call by style name and the call by the coordinates of named instance i
\* on an equal font end alike: the same font, the same error
C13_SameOutcome(i) ==
    /\ last.by_coordinates[i].font = font
    /\ last.by_coordinates[i].error = last.error
    /\ last.by_coordinates[i].msg = last.msg

C15_Pre ==
    /\ IsPin
    /\ last.error = ""
    /\ last.update_style_flags
    /\ \/ C14_Point["ital"] = 1
       \/ C14_Point["slnt"] # Missing /\ C14_Point["slnt"] < 0

\* C15: after a successful to_static with update_style_flags = True whose
\* final resolved coordinates (explicit, from a named instance, or the axis
\* default of an axis left out) have ital = 1 or slnt negative, the flag
\* italic is true and the flag regular is false, also with update_names =
\* False or no named instance
C15_ItalicFlagsFollowCoordinates ==
    C15_Pre => (get_style_flag(font, "italic") /\ ~get_style_flag(font, "regular"))

IsRename == last.op = "rename"

\* the names rename works with: the argument, the font's own where none is given
C16_Family == IF last.family_name # <<>> THEN last.family_name ELSE get_family_name(before)

C16_Style == IF last.style_name # <<>> THEN last.style_name ELSE get_style_name(before)

\* runs of "-" collapsed into one: the characters that are no "-" after a "-"
C16_Collapsed(s) ==
    LET after == [i \in 1..Len(s) |-> <<IF i > 1 THEN s[i - 1] ELSE "", s[i]>>]
        kept == SelectSeq(after, LAMBDA p : ~(p[1] = "-" /\ p[2] = "-"))
    IN [i \in 1..Len(kept) |-> kept[i][2]]

RECURSIVE C16_Stripped(_)
\* leading and trailing "-" stripped
C16_Stripped(s) ==
    IF s = <<>> THEN s
    ELSE IF s[1] = "-" THEN C16_Stripped(Tail(s))
    ELSE IF s[Len(s)] = "-" THEN C16_Stripped(SubSeq(s, 1, Len(s) - 1))
    ELSE s

\* the derivation of the claim: spaces removed inside each name, the two
\* joined, characters outside the PostScript set replaced by "-"
C16_Derived ==
    LET family == SelectSeq(C16_Family, LAMBDA c : c # " ")
        style == SelectSeq(C16_Style, LAMBDA c : c # " ")
        joined == IF family = <<>> THEN style
                  ELSE IF style = <<>> THEN family ELSE family \o <<" ">> \o style
    IN C16_Stripped(C16_Collapsed(
           [i \in 1..Len(joined) |->
               IF joined[i] \in PostScriptAllowed THEN joined[i] ELSE "-"]))

S_MyFontBoldItalic == <<"M","y","F","o","n","t","-","B","o","l","d","I","t","a","l","i","c">>

\* rename(family_name="My Font", style_name="Bold Italic") has returned
C16_Example ==
    IsRename /\ last.error = "" /\ last.family_name = S_MyFont /\ last.style_name = S_BoldItalic

\* C16 as stated: rename derives the PostScript name by removing the spaces
\* inside the family and the style name, joining them, replacing disallowed
\* characters by "-", collapsing runs of "-" and stripping "-" at both ends;
\* "My Font" with "Bold Italic" gives "MyFont-BoldItalic", of length 20
C16_PostScriptNameOfLength20 ==
    /\ IsRename /\ last.error = "" => get_name(font, "postscript_name") = C16_Derived
    /\ C16_Example =>
           /\ get_name(font, "postscript_name") = S_MyFontBoldItalic
           /\ Len(get_name(font, "postscript_name")) = 20
           /\ Len(get_name(font, "postscript_name")) <= 63

\* C16, amended: the same derivation; "My Font" with "Bold Italic" gives
\* "MyFont-BoldItalic", of length 17, under the limit of 63
C16_PostScriptNameDerived ==
    /\ IsRename /\ last.error = "" => get_name(font, "postscript_name") = C16_Derived
    /\ C16_Example =>
           /\ get_name(font, "postscript_name") = S_MyFontBoldItalic
           /\ Len(get_name(font, "postscript_name")) = 17
           /\ Len(get_name(font, "postscript_name")) <= 63

\* the example of the claim on a font named My Font Regular
C16_Witness ==
    /\ C16_Example
    /\ get_name(before, "postscript_name") # S_MyFontBoldItalic
    /\ get_name(font, "postscript_name") = S_MyFontBoldItalic

\* C17: rename raises ArgumentError exactly when the PostScript name it
\* computes is longer than 63 characters (63 are accepted, 80 rejected), and
\* when it raises no name record and no style flag of the font has changed
C17_RaisesExactlyWhenTooLong ==
    IsRename =>
        /\ last.error = "ArgumentError" <=> Len(C16_Derived) > 63
        /\ last.error # "ArgumentError" => last.error = ""
        /\ last.error = "ArgumentError" =>
               /\ font.names = before.names
               /\ get_style_flags(font) = get_style_flags(before)
               /\ font = before
        /\ Len(C16_Derived) = 63 => get_name(font, "postscript_name") = C16_Derived

\* a PostScript name of 80 characters is rejected: a family name of 69
\* characters with the style Bold Italic
C17_Witness ==
    /\ IsRename
    /\ Len(last.family_name) = 69
    /\ last.style_name = S_BoldItalic
    /\ Len(C16_Derived) = 80
    /\ last.error = "ArgumentError"
    /\ font = before

\* a PostScript name of 63 characters is accepted
C17_Accepted63 ==
    /\ IsRename
    /\ Len(C16_Derived) = 63
    /\ last.error = ""
    /\ Len(get_name(font, "postscript_name")) = 63
    /\ font # before

\* a to_sliced_variable call that reached the instancer
C18_Pre == IsSlice /\ before.fvar /\ last.inst.called

\* the axis tags the call gives a value for
C18_Tags == CoordKeys(last.coordinates) \cap AxesTagSet(before)

\* what the instancer is handed for a raw value: numbers and tuples as they
\* are, a list as the tuple of its elements, a mapping as the triple of its
\* min, default and max with the axis's own values for the missing keys
C18_Handed(axis, v) ==
    CASE v.k = "list" -> Tuple(v.s)
      [] v.k = "dict" ->
            Tuple(<<IF v.s[1] = Missing THEN axis.min_value ELSE v.s[1],
                    IF v.s[2] = Missing THEN axis.default_value ELSE v.s[2],
                    IF v.s[3] = Missing THEN axis.max_value ELSE v.s[3]>>)
      [] OTHER -> v

\* the triple of the claim, with the default of a pair moved into the pair
C18_Triple(axis, v) ==
    IF v.k \in {"tuple", "list"} /\ Len(v.s) = 2
    THEN <<v.s[1], Max2(v.s[1], Min2(v.s[2], axis.default_value)), v.s[2]>>
    ELSE NormalTriple(axis, v)

\* the raw value lies inside the declared range of the axis
C18_Within(axis, v) ==
    \A i \in 1..Len(v.s) :
        v.s[i] = Missing \/ (axis.min_value <= v.s[i] /\ v.s[i] <= axis.max_value)

\* the font after the call has the axis limited to the triple, or fixed at it
C18_AxisIs(tag, t) ==
    IF t[1] = t[3] THEN ~HasAxis(font, tag) /\ font.pinned[tag] = t[2]
    ELSE HasAxis(font, tag) /\ AxisOf(font, tag) = Axis(tag, t[1], t[2], t[3])

\* every value is handed over as C18_Handed says, lists as tuples, and after
\* a successful call each axis given inside its range has the triple
C18_Normalized(triple(_, _)) ==
    C18_Pre =>
        \A tag \in C18_Tags :
            /\ last.inst.coordinates[tag] = C18_Handed(AxisOf(before, tag), last.coordinates[tag])
            /\ last.coordinates[tag].k = "list" =>
                   last.inst.coordinates[tag] = Tuple(last.coordinates[tag].s)
            /\ (last.error = "" /\ C18_Within(AxisOf(before, tag), last.coordinates[tag])) =>
                   C18_AxisIs(tag, triple(AxisOf(before, tag), last.coordinates[tag]))

\* C18 as stated: normalization sends a number v to (v, v, v), a pair
\* (v0, v1) to (v0, axis default unless v0 = v1, v1), a 3-element sequence to
\* itself and a mapping to (min, default, max) with the axis's own value for
\* every missing key; lists and tuples of the same elements go the same way
C18_PairTakesAxisDefault == C18_Normalized(NormalTriple)

\* C18, amended: the same, but a pair (v0, v1) goes to (v0, d, v1) with d the
\* axis default moved into [v0, v1]
C18_PairTakesDefaultWithinPair == C18_Normalized(C18_Triple)

\* {wght: [700, 900]} on an axis (100, 400, 900): the list is handed over as
\* a tuple and the axis becomes (700, 700, 900)
C18_Witness ==
    /\ C18_Pre
    /\ last.error = ""
    /\ AxisOf(before, "wght") = Axis("wght", 100, 400, 900)
    /\ last.coordinates["wght"] = List(<<700, 900>>)
    /\ last.inst.coordinates["wght"] = Tuple(<<700, 900>>)
    /\ AxisOf(font, "wght") = Axis("wght", 700, 700, 900)

\* a call with options
HasOptions == (IsSlice \/ IsPin) /\ "received" \in DOMAIN last

\* the default of the call for an option
C19_Default(k) ==
    CASE k = "optimize" -> "True"
      [] k = "overlap" -> IF IsSlice THEN "KEEP_AND_SET_FLAGS" ELSE "REMOVE"
      [] k = "updateFontNames" -> "False"
      [] OTHER -> NoOption

\* the instancer is called with the default for every option in K the caller
\* did not give and with the caller's value for every option in K given
C19_Passed(K) ==
    \A k \in K :
        last.received[k] = IF last.options[k] # NoOption THEN last.options[k]
                           ELSE C19_Default(k)

\* C19 as stated: the instancer is called with optimize = True, overlap =
\* KEEP_AND_SET_FLAGS (to_sliced_variable) or REMOVE (to_static) and
\* updateFontNames = False for exactly those options the caller did not give,
\* and every option the caller gives reaches the instancer with the caller's
\* value
C19_EveryOptionPassedVerbatim ==
    HasOptions =>
        /\ last.inst.called => C19_Passed({"optimize", "overlap", "updateFontNames"})
        /\ \A k \in OptionKeys :
               last.options[k] # NoOption =>
                   /\ last.msg # "multiple values for keyword argument inplace"
                   /\ last.inst.called => last.received[k] = last.options[k]

\* C19, amended: the same for every option but inplace; the instancer is
\* always called with inplace = True, to_static writing it over the caller's
\* value and to_sliced_variable raising TypeError, before the instancer is
\* called and with the font unchanged, when the caller gives inplace
C19_OptionsPassedButInplace ==
    HasOptions =>
        /\ last.inst.called =>
               /\ C19_Passed({"optimize", "overlap", "updateFontNames"})
               /\ last.received["inplace"] = "True"
        /\ last.msg = "multiple values for keyword argument inplace" =>
               /\ IsSlice
               /\ last.options["inplace"] # NoOption
               /\ last.error = "TypeError"
               /\ ~last.inst.called
               /\ font = before
        /\ (IsSlice /\ last.options["inplace"] # NoOption) => ~last.inst.called

\* a slice called with optimize = False only: the instancer gets the caller's
\* optimize and the defaults of the two other options
C19_Witness ==
    /\ HasOptions
    /\ IsSlice
    /\ last.error = ""
    /\ last.inst.called
    /\ last.options = [NoOptions EXCEPT !["optimize"] = "False"]
    /\ last.received["optimize"] = "False"
    /\ last.received["overlap"] = "KEEP_AND_SET_FLAGS"
    /\ last.received["updateFontNames"] = "False"
    /\ AxisOf(font, "wght") = Axis("wght", 400, 400, 700)

IsSetStyleFlags == last.op = "set_style_flags"

\* C21: after set_style_flags get_style_flags returns the given value for
\* every flag passed as True or False and the value it had before for every
\* flag passed as None or left out; nothing else of the font changes
C21_FlagsSetAndOthersKept ==
    IsSetStyleFlags =>
        /\ \A k \in DOMAIN last.flags :
               get_style_flags(font)[k] =
                   IF last.flags[k] = "None" THEN get_style_flags(before)[k]
                   ELSE last.flags[k] = "True"
        /\ font.names = before.names
        /\ font.axes = before.axes
        /\ font.fvar = before.fvar

\* bold and underline set on a regular font, regular passed as None: bold and
\* underline are true and regular is still true
C21_Witness ==
    /\ IsSetStyleFlags
    /\ get_style_flags(before)["regular"]
    /\ ~get_style_flags(before)["bold"]
    /\ last.flags["bold"] = "True"
    /\ last.flags["underline"] = "True"
    /\ last.flags["regular"] = "None"
    /\ get_style_flags(font)["bold"]
    /\ get_style_flags(font)["underline"]
    /\ get_style_flags(font)["regular"]

\* the named instance the style name of the call matched: the first, in
\* declaration order, with that name but for case and whitespace
C23_Matched == CHOOSE i \in C12_Matching : \A j \in C12_Matching : i <= j

C23_Pre == IsPinByStyleName /\ last.update_names /\ last.error = ""

\* C23: after a successful to_static(style_name=S, update_names=True) the
\* style name of the font is the declared style name of the named instance
\* that S matched
C23_NamedAfterMatchedInstance ==
    C23_Pre => get_style_name(font) = before.instances[C23_Matched].style_name

\* named instance i of the font before the call is italic or slanted
C24_Slanted(i) ==
    \/ before.instances[i].coordinates["ital"] = 1
    \/ /\ before.instances[i].coordinates["slnt"] \notin {Missing, NoneVal}
       /\ before.instances[i].coordinates["slnt"] < 0

\* C24: every font save_variable_instances exports for a named instance with
\* ital = 1 or slnt < 0 has italic = true and regular = false
C24_ExportedSlantedIsItalic ==
    (IsExport /\ last.error = "") =>
        \A i \in 1..Len(exported) :
            (i <= Len(before.instances) /\ C24_Slanted(i)) =>
                /\ get_style_flag(exported[i], "italic")
                /\ ~get_style_flag(exported[i], "regular")

IsClone == last.op = "clone"

\* the names, style flags, axes and variable/static status of two fonts agree
C25_SameState(a, b) ==
    /\ a.names = b.names
    /\ get_style_flags(a) = get_style_flags(b)
    /\ a.axes = b.axes
    /\ a.fvar = b.fvar

\* C25 as stated: the clone has the state of the font at the time of cloning
C25_CloneHasCurrentState == IsClone => C25_SameState(exported[1], font)

\* C25: clone() returns a font with the state of the binary the font was
\* loaded from, whatever has been changed in memory since; taking the clone
\* and changing the clone leave the original as it was
C25_CloneHasLoadedState ==
    /\ IsClone => (exported[1] = source /\ font = before)
    /\ last.op = "clone.rename" => font = before

\* a clone of a font renamed in memory has the names of the file
C25_Witness ==
    /\ IsClone
    /\ font.names # source.names
    /\ exported[1].names = source.names
    /\ ~C25_SameState(exported[1], font)

C26_Pre == IsRename /\ last.error = ""

\* C26 as stated: the names given are returned stripped by the getters, the
\* full name is the two joined by a space, a name not given is kept, and the
\* same call once more leaves the name records as they are
C26_RenameRoundTrips ==
    C26_Pre =>
        /\ get_family_name(font) =
               IF Strip(last.family_name) # <<>> THEN Strip(last.family_name)
               ELSE get_family_name(before)
        /\ get_style_name(font) =
               IF Strip(last.style_name) # <<>> THEN Strip(last.style_name)
               ELSE get_style_name(before)
        /\ (Strip(last.family_name) # <<>> /\ Strip(last.style_name) # <<>>) =>
               get_name(font, "full_name") =
                   Strip(last.family_name) \o <<" ">> \o Strip(last.style_name)
        /\ last.again.error = ""
        /\ last.again.font.names = font.names

C27_Pre == IsRename /\ last.error = "" /\ last.update_style_flags

\* the style name rename worked with, in lower case
C27_Style ==
    Lower(IF Strip(last.style_name) # <<>> THEN Strip(last.style_name)
          ELSE get_style_name(before))

\* the legacy subfamily name the claim gives for that style
C27_Subfamily ==
    CASE C27_Style = Lower(S_Regular) -> S_Regular
      [] C27_Style = Lower(S_Italic) -> S_Italic
      [] C27_Style = Lower(S_Bold) -> S_Bold
      [] C27_Style = Lower(S_BoldItalic) -> S_BoldItalic
      [] OTHER -> IF Contains(C27_Style, Lower(S_Italic)) THEN S_Italic ELSE S_Regular

IsSaveWithFlavor == last.op = "save_with_flavor"

\* C28: after save_as_woff or save_as_woff2, whether save returned a path or
\* raised, the flavor of the font is the one it had before the call
C28_FlavorRestored == IsSaveWithFlavor => font.flavor = before.flavor

\* the value handed to the instancer is a 3-tuple of numbers in order
C30_WellFormed(v) ==
    /\ IsNumber(v.s[1]) /\ IsNumber(v.s[2]) /\ IsNumber(v.s[3])
    /\ v.s[1] <= v.s[2]
    /\ v.s[2] <= v.s[3]

\* C30: every (min, default, max) triple to_sliced_variable hands to the
\* instancer for a declared axis has three defined values, min <= default <= max
C30_HandedTriplesWellFormed ==
    (IsSlice /\ last.inst.called) =>
        \A t \in CoordKeys(last.inst.coordinates) \cap AxesTagSet(before) :
            (last.inst.coordinates[t].k = "tuple" /\ Len(last.inst.coordinates[t].s) = 3) =>
                C30_WellFormed(last.inst.coordinates[t])

=============================================================================
